---- MODULE Spec2Model ----
(***************************************************************************)
(* Model of the PicTester image validation service.                       *)
(*                                                                         *)
(* src/index.py (FastAPI) and src/api/index.py (Flask) carry the same     *)
(* core, check_image and check_image_transparency, under two different    *)
(* HTTP wrappers.  The core is modelled once; each wrapper is an action.  *)
(*                                                                         *)
(* Representation choices:                                                *)
(*  - text is a sequence of tokens (an f-string is the concatenation of   *)
(*    its literal parts and its formatted values);                        *)
(*  - the uploaded bytes are either empty, undecodable, or the encoding   *)
(*    of an image: format tag, size, colour mode, optional palette        *)
(*    transparency key and the values of the last band, run-length        *)
(*    encoded (900 x 1200 pixels do not fit an explicit sequence);        *)
(*  - the profile names of RULES are transliterated to ASCII:             *)
(*    "shenghuozhao" (life photo) and "zhengjianzhao" (ID photo);         *)
(*  - Python's None is <<>> and a present value v is <<v>>.               *)
(***************************************************************************)
EXTENDS Integers, Sequences, FiniteSets, TLC

VARIABLES request, pc, report, response, calls

vars == <<request, pc, report, response, calls>>

(***************************************************************************)
(* Bounds of the model.                                                    *)
(***************************************************************************)
\* longest run-length encoding of a band that the inputs enumerate
MaxRuns == 2

(***************************************************************************)
(* Helpers on sequences.                                                   *)
(***************************************************************************)
Range(s) == {s[i] : i \in DOMAIN s}

None == <<>>

Some(v) == <<v>>

\* str.join: the items separated by sep
RECURSIVE Join(_, _)
Join(sep, items) ==
    IF items = <<>> THEN <<>>
    ELSE IF Len(items) = 1 THEN <<items[1]>>
    ELSE <<items[1], sep>> \o Join(sep, Tail(items))

(***************************************************************************)
(* RULES: the rule table, and its keys in insertion order.                 *)
(***************************************************************************)
RuleNames == <<"shenghuozhao", "zhengjianzhao">>

RULES ==
    [n \in Range(RuleNames) |->
        IF n = "shenghuozhao"
        THEN [format |-> "PNG", size |-> <<900, 1200>>, transparent |-> TRUE]
        ELSE [format |-> "PNG", size |-> <<400, 400>>, transparent |-> TRUE]]

(***************************************************************************)
(* The imaging facility (PIL) as the code uses it.                         *)
(***************************************************************************)
\* Image.open: parses the header only; raises on bytes that are no image
ImageOpen(img_data) ==
    IF img_data.kind = "image"
    THEN [raised |-> FALSE,
          img |-> [format |-> img_data.format,
                   width |-> img_data.size[1],
                   height |-> img_data.size[2],
                   size |-> img_data.size,
                   mode |-> img_data.mode,
                   info |-> IF img_data.key = None THEN {} ELSE {"transparency"},
                   key |-> img_data.key,
                   truncated |-> img_data.truncated,
                   data |-> img_data.data]]
    ELSE [raised |-> TRUE, detail |-> <<"cannot identify image file">>]

\* img.convert('RGBA') of a palette image: a pixel whose palette index is
\* the transparency key gets alpha 0, every other pixel alpha 255;
\* loading the pixel data of a truncated file raises
ConvertRGBA(img) ==
    IF img.truncated THEN [raised |-> TRUE]
    ELSE [raised |-> FALSE,
          img |-> [img EXCEPT
                     !.mode = "RGBA",
                     !.data = [i \in DOMAIN img.data |->
                                 [a |-> IF img.key # None /\ img.data[i].a = img.key[1]
                                        THEN 0 ELSE 255,
                                  n |-> img.data[i].n]]]]

\* list(img.split()[-1].getdata()): the values of the last band
AlphaData(img) ==
    IF img.truncated THEN [raised |-> TRUE]
    ELSE [raised |-> FALSE, alpha_data |-> img.data]

(***************************************************************************)
(* check_image_transparency                                                *)
(***************************************************************************)
\* sum(1 for a in alpha_data if a == 0), over the run-length encoding
RECURSIVE FullyTransparentCount(_)
FullyTransparentCount(alpha_data) ==
    IF alpha_data = <<>> THEN 0
    ELSE (IF alpha_data[1].a = 0 THEN alpha_data[1].n ELSE 0)
         + FullyTransparentCount(Tail(alpha_data))

\* variant: the threshold compared with >= instead of >
RatioAtLeast(fully_transparent_count, total_pixels) ==
    fully_transparent_count * 1000 >= total_pixels

\* fully_transparent_count / total_pixels > 0.001.  Python's int / int is
\* the correctly rounded quotient and 0.001 is the double nearest 1/1000;
\* for total_pixels < 10^15 the comparison equals the exact one below.
RatioExceeds(fully_transparent_count, total_pixels) ==
    fully_transparent_count * 1000 > total_pixels

\* variant: no check of the colour mode before the last band is read
ModeUnchecked(mode) == TRUE

\* img.mode in ('RGBA', 'LA')
ModeHasAlpha(mode) == mode \in {"RGBA", "LA"}

\* transparent_ratio = count / total_pixels (ZeroDivisionError on an empty
\* image); is_transparent = transparent_ratio > 0.001
RatioResult(fully_transparent_count, total_pixels) ==
    IF total_pixels = 0 THEN [raised |-> TRUE]
    ELSE [raised |-> FALSE,
          is_transparent |-> RatioExceeds(fully_transparent_count, total_pixels),
          count |-> fully_transparent_count]

\* the statements after alpha_data was read from img
CountAlpha(got, img) ==
    IF got.raised THEN [raised |-> TRUE]
    ELSE RatioResult(FullyTransparentCount(got.alpha_data), img.width * img.height)

\* the statements after the palette branch, conv being its outcome
AfterConvert(conv) ==
    IF conv.raised THEN [raised |-> TRUE]
    ELSE IF ~ModeHasAlpha(conv.img.mode)
    THEN [raised |-> FALSE, is_transparent |-> FALSE, count |-> 0]
    ELSE CountAlpha(AlphaData(conv.img), conv.img)

\* the body of the try block: a return value or a raised exception
TransparencyBody(img) ==
    IF img.mode = "P" /\ "transparency" \notin img.info
    THEN [raised |-> FALSE, is_transparent |-> FALSE, count |-> 0]
    ELSE AfterConvert(IF img.mode = "P" THEN ConvertRGBA(img)
                      ELSE [raised |-> FALSE, img |-> img])

\* except Exception as e: return False, 0
Swallow(r) ==
    IF r.raised THEN [is_transparent |-> FALSE, count |-> 0]
    ELSE [is_transparent |-> r.is_transparent, count |-> r.count]

\* try: ... except Exception: return False, 0
CheckImageTransparency(img) == Swallow(TransparencyBody(img))

(***************************************************************************)
(* check_image                                                             *)
(***************************************************************************)
FormatError(img, rule) ==
    <<"format error: currently ", img.format, ", should be ", rule.format>>

SizeError(img, rule) ==
    <<"size error: currently ", ToString(img.width), "x", ToString(img.height),
      ", should be ", ToString(rule.size[1]), "x", ToString(rule.size[2])>>

TransparencyError ==
    <<"transparency error: non-transparent background (transparent pixel ratio < 0.1%)">>

\* variant: the message does not carry the supplied name
UnknownTypeReportNoName(image_type) ==
    [success |-> FALSE,
     message |-> <<"unsupported image type">>,
     errors |-> << <<"supported types: ">> \o Join(", ", RuleNames) >>]

\* if image_type not in RULES: return {...}
UnknownTypeReport(image_type) ==
    [success |-> FALSE,
     message |-> <<"unsupported image type: ", image_type>>,
     errors |-> << <<"supported types: ">> \o Join(", ", RuleNames) >>]

\* variant: the exception text is left out of the error entry
DecodeFailReportNoDetail(detail) ==
    [success |-> FALSE,
     message |-> <<"image processing failed">>,
     errors |-> << <<"error detail: ">> >>]

\* except Exception as e: return {...}
DecodeFailReport(detail) ==
    [success |-> FALSE,
     message |-> <<"image processing failed">>,
     errors |-> << <<"error detail: ">> \o detail >>]

\* if img.format != rule["format"]: errors.append(...)
FormatCheck(errors, img, rule) ==
    IF img.format # rule.format THEN Append(errors, FormatError(img, rule))
    ELSE errors

\* variant: the size compared without regard to orientation
SizeCheckAnyOrientation(errors, img, rule) ==
    IF {img.width, img.height} # {rule.size[1], rule.size[2]}
    THEN Append(errors, SizeError(img, rule))
    ELSE errors

\* if img.size != expected_size: errors.append(...)
SizeCheck(errors, img, rule) ==
    IF img.size # rule.size THEN Append(errors, SizeError(img, rule))
    ELSE errors

\* if not is_transparent: errors.append(...), t being the pair returned
TransparencyOutcome(errors, t) ==
    [called |-> TRUE,
     transparent_count |-> Some(t.count),
     errors |-> IF ~t.is_transparent THEN Append(errors, TransparencyError)
                ELSE errors]

\* variant: the transparency check skipped once an error was found
TransparencyCheckShortCircuit(errors, img, rule) ==
    IF rule.transparent /\ errors = <<>>
    THEN TransparencyOutcome(errors, CheckImageTransparency(img))
    ELSE [called |-> FALSE, transparent_count |-> None, errors |-> errors]

\* if rule["transparent"]: is_transparent, transparent_count = ...
TransparencyCheck(errors, img, rule) ==
    IF rule.transparent
    THEN TransparencyOutcome(errors, CheckImageTransparency(img))
    ELSE [called |-> FALSE, transparent_count |-> None, errors |-> errors]

ImageSizeText(img) == <<ToString(img.width), "x", ToString(img.height)>>

\* the report of the len(errors) == 0 branch
PassReport(img, rule, transparent_count) ==
    [success |-> TRUE,
     message |-> <<"check passed">>,
     image_info |-> [format |-> img.format,
                     size |-> ImageSizeText(img),
                     mode |-> img.mode,
                     transparent_pixels |->
                         IF rule.transparent THEN transparent_count ELSE None]]

\* variant: the collected errors left out of the failing report
FailReportNoErrors(img, errors) ==
    [success |-> FALSE,
     message |-> <<"check failed">>,
     image_info |-> [format |-> img.format,
                     size |-> ImageSizeText(img),
                     mode |-> img.mode]]

\* variant: image_info of the failing report built like the passing one
FailReportWithCount(img, errors) ==
    [success |-> FALSE,
     message |-> <<"check failed">>,
     errors |-> errors,
     image_info |-> [format |-> img.format,
                     size |-> ImageSizeText(img),
                     mode |-> img.mode,
                     transparent_pixels |-> None]]

\* the report of the else branch
FailReport(img, errors) ==
    [success |-> FALSE,
     message |-> <<"check failed">>,
     errors |-> errors,
     image_info |-> [format |-> img.format,
                     size |-> ImageSizeText(img),
                     mode |-> img.mode]]

\* the return statements after the checks, t being the outcome of the last
BuildReport(img, rule, t) ==
    [result |-> IF Len(t.errors) = 0
                THEN PassReport(img, rule, t.transparent_count)
                ELSE FailReport(img, t.errors),
     calls |-> <<"Image.open", "format check", "size check">>
               \o (IF t.called THEN <<"check_image_transparency">> ELSE <<>>)]

\* errors = []; format check; size check; transparency check; return
RunChecks(img, rule) ==
    BuildReport(img, rule,
        TransparencyCheck(SizeCheck(FormatCheck(<<>>, img, rule), img, rule),
                          img, rule))

\* the try block of check_image, opened being the outcome of Image.open
AfterOpen(opened, rule) ==
    IF opened.raised
    THEN [result |-> DecodeFailReport(opened.detail), calls |-> <<"Image.open">>]
    ELSE RunChecks(opened.img, rule)

\* check_image: the report, and the calls made on the way, in order
CheckImage(img_data, image_type) ==
    IF image_type \notin DOMAIN RULES
    THEN [result |-> UnknownTypeReport(image_type), calls |-> <<>>]
    ELSE AfterOpen(ImageOpen(img_data), RULES[image_type])

(***************************************************************************)
(* The HTTP wrappers.  A handler body either returns a response or raises. *)
(***************************************************************************)
NoReport == [pending |-> TRUE]

NoResponse == [status |-> 0]

\* `not image_type` on request.form.get('image_type')
FormTypeMissing(req) == ~req.has_type \/ req.image_type = ""

\* status_code = 200 if result["success"] else 400; return jsonify(...)
FlaskRespond(c) ==
    [raised |-> FALSE, report |-> c.result,
     calls |-> <<"check_image">> \o c.calls,
     response |-> [status |-> IF c.result.success THEN 200 ELSE 400,
                   body |-> c.result]]

\* src/api/index.py, the try block of check_image_endpoint
FlaskBody(req) ==
    IF ~req.has_image
    THEN [raised |-> FALSE, report |-> NoReport, calls |-> <<>>,
          response |-> [status |-> 400,
                        body |-> [success |-> FALSE,
                                  message |-> <<"missing image file">>,
                                  errors |-> << <<"upload a file named 'image'">> >>]]]
    ELSE IF FormTypeMissing(req)
    THEN [raised |-> FALSE, report |-> NoReport, calls |-> <<>>,
          response |-> [status |-> 400,
                        body |-> [success |-> FALSE,
                                  message |-> <<"missing image type parameter">>,
                                  errors |-> << <<"provide the 'image_type' parameter">> >>]]]
    ELSE IF req.filename = ""
    THEN [raised |-> FALSE, report |-> NoReport, calls |-> <<>>,
          response |-> [status |-> 400,
                        body |-> [success |-> FALSE,
                                  message |-> <<"no file selected">>,
                                  errors |-> << <<"select an image file to upload">> >>]]]
    ELSE IF req.img_data.kind = "empty"
    THEN [raised |-> FALSE, report |-> NoReport, calls |-> <<>>,
          response |-> [status |-> 400,
                        body |-> [success |-> FALSE,
                                  message |-> <<"uploaded file is empty">>,
                                  errors |-> << <<"file content is empty">> >>]]]
    ELSE FlaskRespond(CheckImage(req.img_data, req.image_type))

\* src/api/index.py, the except clause, r being the outcome of the try block
FlaskExcept(r) ==
    IF r.raised
    THEN [report |-> r.report, calls |-> r.calls,
          response |-> [status |-> 500,
                        body |-> [success |-> FALSE,
                                  message |-> <<"server error">>,
                                  errors |-> << <<"error detail: ">> \o r.detail >>]]]
    ELSE [report |-> r.report, calls |-> r.calls, response |-> r.response]

\* src/api/index.py check_image_endpoint
FlaskEndpoint(req) == FlaskExcept(FlaskBody(req))

\* the values of Literal["...", "..."] in the FastAPI signature
FastapiLiteral == {"shenghuozhao", "zhengjianzhao"}

\* File(...) and Form(...) are required and image_type is a Literal: the
\* framework answers 422 without entering the handler otherwise
FastapiValid(req) ==
    req.has_image /\ req.has_type /\ req.image_type \in FastapiLiteral

\* return JSONResponse(content=result): the status is the default 200
FastapiRespond(c) ==
    [raised |-> FALSE, report |-> c.result,
     calls |-> <<"check_image">> \o c.calls,
     response |-> [status |-> 200, body |-> c.result]]

\* src/index.py, the try block of check_image_endpoint
FastapiBody(req) ==
    IF req.img_data.kind = "empty"
    THEN [raised |-> TRUE, report |-> NoReport, calls |-> <<>>,
          exception |-> [status |-> 400, detail |-> <<"uploaded file is empty">>]]
    ELSE FastapiRespond(CheckImage(req.img_data, req.image_type))

\* src/index.py, the except clause: except Exception also catches the
\* HTTPException raised in the try block and raises a 500 in its place
FastapiExcept(r) ==
    IF r.raised
    THEN [report |-> r.report, calls |-> r.calls,
          response |-> [status |-> 500,
                        body |-> [detail |-> <<"server error: ">>
                                             \o <<ToString(r.exception.status), ": ">>
                                             \o r.exception.detail]]]
    ELSE [report |-> r.report, calls |-> r.calls, response |-> r.response]

\* src/index.py check_image_endpoint: File(...), Form(...) and the Literal
\* are validated by the framework before the handler is entered
FastapiEndpoint(req) ==
    IF ~FastapiValid(req)
    THEN [report |-> NoReport, calls |-> <<>>,
          response |-> [status |-> 422,
                        body |-> [detail |-> <<"request validation error">>]]]
    ELSE FastapiExcept(FastapiBody(req))

(***************************************************************************)
(* Inputs.                                                                 *)
(***************************************************************************)
\* the sizes of the two rules, and one that matches neither
Sizes == {<<900, 1200>>, <<400, 400>>, <<1200, 900>>}

\* format tag and colour mode as PIL's decoders report them
FormatModes ==
    {<<"PNG", "RGBA">>, <<"PNG", "LA">>, <<"PNG", "P">>, <<"PNG", "RGB">>,
     <<"PNG", "L">>, <<"WEBP", "RGBA">>, <<"WEBP", "RGB">>, <<"GIF", "P">>,
     <<"GIF", "L">>, <<"JPEG", "RGB">>, <<"JPEG", "L">>}

\* band values: 0, partial (1, 128) and the maximum
PixelLevels == {0, 1, 255}

\* palette transparency key: absent, or a palette index
Keys(mode) == IF mode = "P" THEN {None, Some(0), Some(1)} ELSE {None}

\* positions where a run may end: around 0.1% of the pixels, at 0.2%
Cuts(total) ==
    {total \div 1000 - 1, total \div 1000, total \div 1000 + 1, 2 * (total \div 1000)}

\* the run-length encodings of pixels from+1 .. total with at most k runs
RECURSIVE Bands(_, _, _)
Bands(from, total, k) ==
    {<<[a |-> v, n |-> total - from]>> : v \in PixelLevels}
    \cup (IF k <= 1 THEN {}
          ELSE UNION {{<<[a |-> v, n |-> c - from]>> \o rest :
                          v \in PixelLevels, rest \in Bands(c, total, k - 1)} :
                      c \in {x \in Cuts(total) : x > from}})

Images ==
    UNION {{[kind |-> "image", format |-> fm[1], mode |-> fm[2], size |-> sz,
             key |-> key, truncated |-> tr, data |-> d] :
               key \in Keys(fm[2]), tr \in BOOLEAN,
               d \in Bands(0, sz[1] * sz[2], MaxRuns)} :
           fm \in FormatModes, sz \in Sizes}

NotImages == {[kind |-> "empty"], [kind |-> "garbage"]}

\* two known profile names, an unknown one and the empty string
TypeNames == {"shenghuozhao", "zhengjianzhao", "touxiang", ""}

\* requests with both parts present
FullRequests ==
    {[framework |-> fw, has_image |-> TRUE, filename |-> "a.png",
      img_data |-> d, has_type |-> TRUE, image_type |-> t] :
        fw \in {"flask", "fastapi", "direct"}, d \in Images \cup NotImages,
        t \in TypeNames}

\* requests with a part missing, or (Flask) an empty file name
PartialRequests ==
    {r \in {[framework |-> fw, has_image |-> hi,
             filename |-> IF hi THEN fn ELSE "",
             img_data |-> IF hi THEN d ELSE [kind |-> "empty"],
             has_type |-> ht, image_type |-> IF ht THEN t ELSE ""] :
               fw \in {"flask", "fastapi"}, hi \in BOOLEAN, ht \in BOOLEAN,
               fn \in {"", "a.png"}, d \in NotImages, t \in TypeNames} :
        r.framework = "fastapi" => r.filename = "a.png" \/ ~r.has_image}

Requests == FullRequests \cup PartialRequests

(***************************************************************************)
(* The state machine: one request, handled by the entry point it targets. *)
(***************************************************************************)
Init ==
    /\ request \in Requests
    /\ pc = "received"
    /\ report = NoReport
    /\ response = NoResponse
    /\ calls = <<>>

\* the handler's outcome becomes the state
Respond(r) ==
    /\ report' = r.report
    /\ response' = r.response
    /\ calls' = r.calls
    /\ pc' = "done"
    /\ UNCHANGED request

\* check_image returned c to a caller that is not an HTTP wrapper
Return(c) ==
    /\ report' = c.result
    /\ calls' = <<"check_image">> \o c.calls
    /\ response' = NoResponse
    /\ pc' = "done"
    /\ UNCHANGED request

\* POST /check-image on the Flask application
FlaskCheckImageEndpoint ==
    /\ pc = "received"
    /\ request.framework = "flask"
    /\ Respond(FlaskEndpoint(request))

\* POST /check-image on the FastAPI application
FastapiCheckImageEndpoint ==
    /\ pc = "received"
    /\ request.framework = "fastapi"
    /\ Respond(FastapiEndpoint(request))

\* check_image called directly with bytes and a profile name
DirectCheckImage ==
    /\ pc = "received"
    /\ request.framework = "direct"
    /\ Return(CheckImage(request.img_data, request.image_type))

Next ==
    \/ FlaskCheckImageEndpoint
    \/ FastapiCheckImageEndpoint
    \/ DirectCheckImage

Spec == Init /\ [][Next]_vars

(***************************************************************************)
(* Vocabulary of the properties, stated on the request and not through    *)
(* the operators of the core.                                              *)
(***************************************************************************)
Done == pc = "done"

\* check_image was entered
Called == Done /\ "check_image" \in Range(calls)

\* check_image was entered with a known profile and decodable bytes
Decoded ==
    /\ Called
    /\ request.image_type \in DOMAIN RULES
    /\ request.img_data.kind = "image"

ErrorsOf(r) == IF "errors" \in DOMAIN r THEN r.errors ELSE <<>>

HasImageInfo(r) == "image_info" \in DOMAIN r

\* the alpha of a pixel whose last-band value is v: the band itself for
\* RGBA and LA; for a palette image 0 on the transparency key, else 255
AlphaOf(d, v) ==
    IF d.mode = "P" THEN (IF d.key # None /\ v = d.key[1] THEN 0 ELSE 255)
    ELSE v

RECURSIVE ZeroAlphaUpTo(_, _)
ZeroAlphaUpTo(d, k) ==
    IF k = 0 THEN 0
    ELSE ZeroAlphaUpTo(d, k - 1)
         + (IF AlphaOf(d, d.data[k].a) = 0 THEN d.data[k].n ELSE 0)

\* number of pixels of the encoded image whose alpha is exactly 0
ZeroAlphaPixels(d) == ZeroAlphaUpTo(d, Len(d.data))

TotalPixels(d) == d.size[1] * d.size[2]

\* the image has an alpha channel (directly, or through its palette's
\* transparency key) and its pixel data can be read
ScanCompletes(d) ==
    /\ ~d.truncated
    /\ \/ d.mode \in {"RGBA", "LA"}
       \/ d.mode = "P" /\ d.key # None

\* more than 0.1% of the pixels have alpha 0
OverThreshold(d) == ZeroAlphaPixels(d) * 1000 > TotalPixels(d)

\* word occurs in text; the empty word occurs in every text
Mentions(text, word) == word = "" \/ \E i \in DOMAIN text : text[i] = word

ListsKnownNames(text) == \A n \in DOMAIN RULES : Mentions(text, n)

(***************************************************************************)
(* Properties.                                                             *)
(***************************************************************************)
\* C1: check_image returns success = true only for a known profile and a
\* decoded image whose format tag equals rule.format, whose (width, height)
\* equals rule.size and, when the rule requires transparency, that the
\* transparency check classified as transparent.
C1_SuccessOnlyIfConforming ==
    (Called /\ report.success) =>
        /\ Decoded
        /\ LET d == request.img_data
               rule == RULES[request.image_type]
           IN  /\ d.format = rule.format
               /\ d.size = rule.size
               /\ rule.transparent => ScanCompletes(d) /\ OverThreshold(d)

\* a conforming image was accepted
C1_Witness ==
    /\ Decoded
    /\ report.success
    /\ request.img_data.size = RULES[request.image_type].size

\* C2: on every path out of check_image the report has success = true
\* exactly when its errors list is empty or absent.
C2_SuccessIffNoErrors ==
    Called => (report.success <=> ErrorsOf(report) = <<>>)

\* a decode failure was reported
C2_Witness ==
    /\ Called
    /\ request.image_type \in DOMAIN RULES
    /\ request.img_data.kind = "garbage"
    /\ ~report.success

\* C3: an image with an alpha channel is classified transparent exactly
\* when (pixels with alpha 0) / (width * height) > 0.001; at exactly 0.1%
\* it is not, and validation fails; pixels of other alpha do not count.
C3_StrictThreshold ==
    (Decoded /\ ScanCompletes(request.img_data)) =>
        LET d == request.img_data
        IN  /\ (TransparencyError \in Range(ErrorsOf(report))) <=> ~OverThreshold(d)
            /\ ZeroAlphaPixels(d) * 1000 <= TotalPixels(d) => ~report.success

\* a 900 x 1200 RGBA PNG with 1080 pixels of alpha 0 and the others
\* partially transparent was rejected
C3_Witness ==
    /\ Decoded
    /\ request.image_type = "shenghuozhao"
    /\ request.img_data.format = "PNG"
    /\ request.img_data.mode = "RGBA"
    /\ ~request.img_data.truncated
    /\ request.img_data.data = <<[a |-> 0, n |-> 1080], [a |-> 1, n |-> 1078920]>>
    /\ ~report.success
    /\ report.errors = <<TransparencyError>>

\* C4 as stated: for a profile name not in the registry the report fails
\* with an entry of the errors list that mentions the supplied name and
\* lists the known names, and the bytes are not decoded.
C4_ErrorEntryMentionsName ==
    (Called /\ request.image_type \notin DOMAIN RULES) =>
        /\ ~report.success
        /\ \E i \in DOMAIN ErrorsOf(report) :
              /\ Mentions(report.errors[i], request.image_type)
              /\ ListsKnownNames(report.errors[i])
        /\ "Image.open" \notin Range(calls)

\* C4 amended: for a profile name not in the registry the report fails,
\* its message mentions the supplied name, its errors list is a single
\* entry listing the known names, and the bytes are not decoded.
C4_MessageMentionsName ==
    (Called /\ request.image_type \notin DOMAIN RULES) =>
        /\ ~report.success
        /\ Mentions(report.message, request.image_type)
        /\ Len(ErrorsOf(report)) = 1
        /\ ListsKnownNames(report.errors[1])
        /\ ~HasImageInfo(report)
        /\ "Image.open" \notin Range(calls)

\* an unknown profile name reached check_image with decodable bytes
C4_Witness ==
    /\ Called
    /\ request.image_type = "touxiang"
    /\ request.img_data.kind = "image"
    /\ ~report.success

\* C5: for a known profile and undecodable bytes the report fails with the
\* 'image processing failed' message, exactly one error that carries the
\* failure detail, no image_info and no format/size/transparency error.
C5_DecodeFailureReport ==
    (Called /\ request.image_type \in DOMAIN RULES
            /\ request.img_data.kind # "image") =>
        /\ ~report.success
        /\ report.message = <<"image processing failed">>
        /\ Len(ErrorsOf(report)) = 1
        /\ Mentions(report.errors[1], "cannot identify image file")
        /\ ~HasImageInfo(report)
        /\ \A i \in DOMAIN report.errors :
              /\ report.errors[i] # TransparencyError
              /\ ~Mentions(report.errors[i], "format error: currently ")
              /\ ~Mentions(report.errors[i], "size error: currently ")

\* empty bytes reached check_image
C5_Witness ==
    /\ Called
    /\ request.image_type \in DOMAIN RULES
    /\ request.img_data.kind = "empty"
    /\ calls = <<"check_image", "Image.open">>

\* C6: when the transparency check does not complete a scan (palette
\* without transparency key, mode without alpha channel, failure while
\* reading the alpha channel) it returns (not transparent, 0) and
\* check_image returns the 'check failed' report with the transparency
\* error and image_info.
C6_ScanFailureIsNotTransparent ==
    (Decoded /\ RULES[request.image_type].transparent
             /\ ~ScanCompletes(request.img_data)) =>
        /\ CheckImageTransparency(ImageOpen(request.img_data).img)
             = [is_transparent |-> FALSE, count |-> 0]
        /\ ~report.success
        /\ report.message = <<"check failed">>
        /\ TransparencyError \in Range(ErrorsOf(report))
        /\ HasImageInfo(report)

\* a truncated RGBA PNG of the right size, all of whose pixels would have
\* alpha 0, was rejected with the transparency error alone
C6_Witness ==
    /\ Decoded
    /\ request.img_data.truncated
    /\ request.img_data.mode = "RGBA"
    /\ Len(request.img_data.data) = 1
    /\ request.img_data.data[1].a = 0
    /\ report.message = <<"check failed">>
    /\ report.errors = <<TransparencyError>>

\* C7: image_info carries a transparent_pixels value only in a success
\* report for a rule that requires transparency, where it is the number of
\* alpha == 0 pixels; a failing report with image_info omits the field.
C7_CountOnlyOnSuccess ==
    Called =>
        /\ (/\ HasImageInfo(report)
            /\ "transparent_pixels" \in DOMAIN report.image_info
            /\ report.image_info.transparent_pixels # None) =>
               /\ report.success
               /\ Decoded
               /\ RULES[request.image_type].transparent
               /\ report.image_info.transparent_pixels
                    = Some(ZeroAlphaPixels(request.img_data))
        /\ (~report.success /\ HasImageInfo(report)) =>
               "transparent_pixels" \notin DOMAIN report.image_info

\* a 900 x 1200 PNG with 0.2% of alpha 0 pixels passed and reports 2160
C7_Witness ==
    /\ Decoded
    /\ report.success
    /\ request.img_data.size = <<900, 1200>>
    /\ report.image_info.transparent_pixels = Some(2160)

\* C8: in both wrappers, once check_image has returned, the status is a
\* success status when report.success and a 4xx status otherwise.
C8_StatusFollowsReport ==
    (Called /\ request.framework \in {"flask", "fastapi"}) =>
        /\ report.success => response.status \in 200..299
        /\ ~report.success => response.status \in 400..499

\* C9: in both wrappers an empty upload (in Flask also a missing file or
\* image_type) is rejected before check_image is called, with a 4xx
\* status and never the 500 of an internal exception.
C9_EmptyUploadIsClientError ==
    (/\ Done
     /\ \/ /\ request.framework \in {"flask", "fastapi"}
           /\ request.has_image
           /\ request.img_data.kind = "empty"
        \/ /\ request.framework = "flask"
           /\ (~request.has_image \/ FormTypeMissing(request))) =>
        /\ ~Called
        /\ response.status \in 400..499

\* C10: after a successful decode the errors list is exactly the format
\* error, the size error and the transparency error of the checks that
\* failed, in that order, and the transparency check is called whenever
\* the rule requires it, whatever the format and size checks found.
C10_AllChecksRunInOrder ==
    Decoded =>
        LET d == request.img_data
            rule == RULES[request.image_type]
            img == ImageOpen(d).img
        IN  /\ ErrorsOf(report)
                 = (IF d.format # rule.format THEN <<FormatError(img, rule)>> ELSE <<>>)
                   \o (IF d.size # rule.size THEN <<SizeError(img, rule)>> ELSE <<>>)
                   \o (IF rule.transparent /\ ~(ScanCompletes(d) /\ OverThreshold(d))
                       THEN <<TransparencyError>> ELSE <<>>)
            /\ rule.transparent =>
                 SubSeq(calls, Len(calls) - 3, Len(calls))
                   = <<"Image.open", "format check", "size check",
                       "check_image_transparency">>

\* an image failed all three checks
C10_Witness ==
    /\ Decoded
    /\ Len(ErrorsOf(report)) = 3
    /\ report.errors[3] = TransparencyError

====
